---- MODULE Spec2Model ----
(***************************************************************************)
(* nimsforestviewer: the Viewer orchestration core (viewer.go), the        *)
(* SmartTVTarget image target (target_smarttv.go), the VideoTarget         *)
(* (target_video.go) and the WebTarget (target_web.go) as state machines.  *)
(*                                                                         *)
(* Threads 1..NumCallers are goroutines of the embedding program calling   *)
(* the Viewer's API; thread NumCallers + k is the run goroutine spawned by *)
(* the k-th Start that got past the already-started guard (its context is  *)
(* context k).  Sections guarded by v.mu.Lock() contain no blocking call   *)
(* and are one step each, enabled only while no reader holds v.mu; the     *)
(* read section of Update is two steps (make, copy) under v.mu.RLock().    *)
(***************************************************************************)
EXTENDS Naturals, Sequences, FiniteSets, TLC

\* ---------------------------------------------------------------- bounds
NumCallers == 2
NumTargets == 2
MaxTargets == 2
NumProviders == 1
MaxProvider == 2
MaxStarts == 2
NumTVCallers == 2
NumImages == 2
MaxTVCalls == 3
NumSnapshots == 2
MaxVideoStarts == 2
MaxDuration == 2
MaxFps == 2
NumWebCallers == 2
MaxWebUpdates == 2
NumRequests == 1
MaxRAM == 2
MaxLands == 1

Callers == 1..NumCallers
Ctxs == 1..MaxStarts
LoopThread(k) == NumCallers + k
LoopThreads == {LoopThread(k) : k \in Ctxs}
Threads == Callers \cup LoopThreads
Targets == 1..NumTargets
Providers == 1..NumProviders
TVCallers == 1..NumTVCallers
Images == 0..NumImages
Snapshots == 1..NumSnapshots
VideoIds == 1..MaxVideoStarts
Durations == 0..MaxDuration
FrameRates == 1..MaxFps
WebCallers == 1..NumWebCallers
Requests == 1..NumRequests

VARIABLES
    provider,     \* v.provider: 0 is nil
    targets,      \* v.targets
    cancel,       \* v.cancel: 0 is nil, k is the cancel function of context k
    done,         \* v.done: TRUE once the channel is closed
    rlocks,       \* threads holding v.mu.RLock()
    nctx,         \* contexts created by Start so far
    ctxDone,      \* ctxDone[k]: context k is cancelled
    panicked,     \* the process died of a runtime panic
    pc,           \* pc[p]: where thread p is
    op,           \* op[p]: the API call thread p is executing
    u,            \* u[p]: the locals of the call thread p is executing, if any
    closed,       \* closed[t]: Close() has been called on target t
    sinceStop,    \* a Start call has begun since the last Stop call began
    sinceHalt     \* a Start call has begun since the last Stop or Close call began

viewerVars == <<provider, targets, cancel, done, rlocks, nctx, ctxDone, panicked,
                pc, op, u, closed, sinceStop, sinceHalt>>

\* SmartTVTarget (target_smarttv.go).  Encoded images are 0..NumImages, 0 the
\* empty byte slice, which bytes.Equal does not tell from nil.
VARIABLES
    lastImageBytes, \* t.lastImageBytes
    tvPc,           \* tvPc[c]: where caller c of SmartTVTarget.Update is
    tvJpeg,         \* tvJpeg[c]: jpegData of caller c's Update
    tvErr,          \* tvErr[c]: the error caller c's Update returns
    tvCalls,        \* Update calls begun on the target
    tvPushes,       \* DisplayImageJPEG calls made
    tvSkips,        \* Update calls that returned at the unchanged-image check
    tvSeen,         \* the encoded images the Update calls have produced
    tvOverlap,      \* two Update calls have been in progress at once
    tvLastOk        \* the bytes of the last push that succeeded: a set of at most one image

tvVars == <<lastImageBytes, tvPc, tvJpeg, tvErr, tvCalls, tvPushes, tvSkips, tvSeen,
           tvOverlap, tvLastOk>>

\* VideoTarget (target_video.go).  One goroutine calls Start and Close, one
\* call after another; Update may be called from any goroutine at any time.
\* Durations are counted in half seconds.  The k-th Start call names its
\* output file k (the name is made from the clock) and its server k.
VARIABLES
    vtState,        \* t.state: 0 is nil
    videoFile,      \* t.videoFile: 0 is ""
    httpServer,     \* t.httpServer: 0 is nil
    fps,            \* t.fps
    duration,       \* t.duration, in half seconds
    vpc,            \* where the goroutine calling Start and Close is
    vl,             \* the locals of its call
    vctxDone,       \* the ctx given to the Start call in progress is cancelled
    ffmpeg,         \* the encoder process of the Start call in progress
    files,          \* the output files on disk
    nStarts,        \* Start calls begun
    servers,        \* the http.Servers created and started
    listening,      \* the servers that listen on t.port
    vtUpd           \* the last Update call: what it returned, and whether the
                    \* Start in progress had failed when it ran

videoVars == <<vtState, videoFile, httpServer, fps, duration, vpc, vl, vctxDone, ffmpeg,
               files, nStarts, servers, listening, vtUpd>>

\* WebTarget (target_web.go).  The sections under t.mu of Update, start and
\* handleViewmodel contain no blocking call and are one step each; Close holds
\* t.mu across server.Shutdown.
VARIABLES
    webState,       \* t.state: 0 is nil
    started,        \* t.started
    server,         \* t.server: 0 is nil
    listeners,      \* http.Servers made and started with ListenAndServe
    wpc,            \* wpc[c]: where caller c of Update is
    wl,             \* wl[c]: the locals of caller c's Update
    rpc,            \* rpc[r]: where the handler of request r is
    rl,             \* rl[r]: the locals of the handler of request r
    webLog,         \* the snapshots written to t.state, in the order of the writes
    webReturned,    \* the latest write of t.state made by an Update that has returned
    webMu,          \* t.mu: "free", or "Close" while Close holds the write lock
    cpc,            \* where the goroutine calling Close is
    webShut         \* Shutdown has closed the listener of t.server

webVars == <<webState, started, server, listeners, wpc, wl, rpc, rl, webLog, webReturned,
             webMu, cpc, webShut>>

\* The JSON projection (json.go): a pure function, applied to one input.
VARIABLES
    jsState,        \* the ViewState given to ViewStateToJSON
    jsWorld         \* the WorldJSON it returned: a set, empty until it has

jsonVars == <<jsState, jsWorld>>

vars == <<viewerVars, tvVars, videoVars, webVars, jsonVars>>

\* What an action of one component leaves alone.
nonViewerVars == <<tvVars, videoVars, webVars, jsonVars>>
nonTVVars == <<viewerVars, videoVars, webVars, jsonVars>>
nonVideoVars == <<viewerVars, tvVars, webVars, jsonVars>>
nonWebVars == <<viewerVars, tvVars, videoVars, jsonVars>>
nonJsonVars == <<viewerVars, tvVars, videoVars, webVars>>

\* ------------------------------------------------------------- locals
\* prov, n, snap (targets), st (state), lastErr: the locals of Update and Close.
\* disp: the Update/Close calls this invocation has made on targets, in order.
\* fetches: GetViewState calls of this invocation.  ctx: the context made by Start.
\* live: the run goroutines not yet exited when the call began.
\* atLock: v.targets when the call took v.mu.  second, again: a Start call had
\* begun, with no Stop (no Stop or Close) call since, when this Start began.
\* since: the values v.provider has held since the call began and before it
\* read v.provider, kept while the call holds the read lock.  err: the value
\* the call returns.
NoErr == [kind |-> "nil", t |-> 0]
Err(k) == [kind |-> k, t |-> 0]
TargetErr(t) == [kind |-> "target", t |-> t]

\* u holds the locals of the threads that are inside a call.
Locals0 ==
    [prov |-> 0, n |-> 0, snap |-> <<>>, st |-> 0, i |-> 0, lastErr |-> NoErr,
     disp |-> <<>>, fetches |-> 0, ctx |-> 0, second |-> FALSE, again |-> FALSE,
     spawned |-> FALSE, live |-> {}, atLock |-> <<>>, since |-> {}, err |-> NoErr]

Enter(p, locals) ==
    [q \in DOMAIN u \cup {p} |-> IF q = p THEN [locals EXCEPT !.since = {provider}] ELSE u[q]]
Leave(p) == [q \in DOMAIN u \ {p} |-> u[q]]

\* NewSmartTVTarget: nothing pushed yet.
TVInit ==
    /\ lastImageBytes = 0
    /\ tvPc = [c \in TVCallers |-> "idle"]
    /\ tvJpeg = [c \in TVCallers |-> 0]
    /\ tvErr = [c \in TVCallers |-> "nil"]
    /\ tvCalls = 0
    /\ tvPushes = 0
    /\ tvSkips = 0
    /\ tvSeen = {}
    /\ tvOverlap = FALSE
    /\ tvLastOk = {}

\* The errors of VideoTarget.Start: the stage Start names and the cause it wraps.
NoVErr == [stage |-> "nil", cause |-> "nil"]
VErr(stage, cause) == [stage |-> stage, cause |-> cause]

\* No encoder process.
NoProcess == [st |-> "none", code |-> 0, stdin |-> "none"]

\* The locals of a VideoTarget call.  id: the number of the Start call.
\* state: the snapshot Start read.  i: the frame index.  file: what
\* generateVideo returned.  wfail: a write failed.  ops: the steps of the call
\* that act on the renderer, the encoder, the endpoint or the display, in
\* order.  cleanups: the cleanups Close attempted and what each returned, in
\* order.
VideoLocals0 ==
    [call |-> "none", id |-> 0, state |-> 0, i |-> 0, err |-> NoVErr, file |-> 0,
     wfail |-> FALSE, ops |-> <<>>, cleanups |-> <<>>]

\* NewVideoTarget with WithVideoFPS(f) and WithVideoDuration(d): no snapshot, no
\* file, no server.
VideoNew(f, d) ==
    /\ vtState = 0
    /\ videoFile = 0
    /\ httpServer = 0
    /\ fps = f
    /\ duration = d
    /\ vpc = "idle"
    /\ vl = VideoLocals0
    /\ vctxDone = FALSE
    /\ ffmpeg = NoProcess
    /\ files = {}
    /\ nStarts = 0
    /\ servers = {}
    /\ listening = {}
    /\ vtUpd = [ret |-> "nil", failed |-> FALSE]

\* A VideoTarget of one frame per second and one second.
VideoInit == VideoNew(1, 2)

\* The locals of WebTarget.Update (state, wasStarted; n: the number of its write
\* of t.state) and of handleViewmodel (state, the document encoded; n: the
\* number of the write it read; floor: webReturned when the request arrived;
\* own: the request came in through t.server, not through an embedding of
\* Handler()).
WebLocals0 == [state |-> 0, wasStarted |-> FALSE, n |-> 0]
HandlerLocals0 ==
    [state |-> 0, n |-> 0, floor |-> 0, own |-> FALSE, doc |-> [kind |-> "none", of |-> 0]]

\* NewWebTarget: no snapshot, no server, not started.
WebInit ==
    /\ webState = 0
    /\ started = FALSE
    /\ server = 0
    /\ listeners = 0
    /\ wpc = [c \in WebCallers |-> "idle"]
    /\ wl = [c \in WebCallers |-> WebLocals0]
    /\ rpc = [r \in Requests |-> "idle"]
    /\ rl = [r \in Requests |-> HandlerLocals0]
    /\ webLog = <<>>
    /\ webReturned = 0
    /\ webMu = "free"
    /\ cpc = "idle"
    /\ webShut = FALSE

\* A ViewState (viewstate.go), as far as the projection's summary goes: of a
\* land its RAM figures, of the summary TotalLands (the other four counts are
\* copied in the same way) and the RAM totals.  The caller fills in the
\* summary; nothing ties it to the lands.
RAMs == 0..MaxRAM
LandViews == [RAMTotal : RAMs, RAMAllocated : RAMs]
SummaryViews == [TotalLands : 0..MaxLands, TotalRAM : RAMs, AllocatedRAM : RAMs]
ViewStates ==
    [Lands : UNION {[1..n -> LandViews] : n \in 0..MaxLands}, Summary : SummaryViews]

\* The projection of an empty ViewState has not been asked for.
JsonInit ==
    /\ jsState = [Lands |-> <<>>,
                  Summary |-> [TotalLands |-> 0, TotalRAM |-> 0, AllocatedRAM |-> 0]]
    /\ jsWorld = {}

\* New (viewer.go:31-40): no provider, no targets, no cancel, an open done channel.
ViewerInit ==
    /\ provider = 0
    /\ targets = <<>>
    /\ cancel = 0
    /\ done = FALSE
    /\ rlocks = {}
    /\ nctx = 0
    /\ ctxDone = [k \in Ctxs |-> FALSE]
    /\ panicked = FALSE
    /\ pc = [p \in Threads |-> IF p \in Callers THEN "idle" ELSE "unborn"]
    /\ op = [p \in Threads |-> "none"]
    /\ u = [p \in {} |-> Locals0]
    /\ closed = [t \in Targets |-> FALSE]
    /\ sinceStop = FALSE
    /\ sinceHalt = FALSE

\* Every component as constructed.
Init ==
    /\ ViewerInit
    /\ TVInit
    /\ VideoInit
    /\ WebInit
    /\ JsonInit

\* A write lock that does not wait for the readers to leave.
WriterIgnoresReaders == TRUE

\* v.mu.Lock() can be taken: no reader holds the lock (writers are one step).
WriterMayLock == rlocks = {}

\* ------------------------------------------------ SetStateProvider, targets
SetStateProvider(pr) ==
    /\ ~panicked
    /\ WriterMayLock
    /\ provider' = pr
    /\ u' = [q \in DOMAIN u |->
                IF pc[q] = "u_begin" THEN [u[q] EXCEPT !.since = @ \cup {pr}] ELSE u[q]]
    /\ UNCHANGED <<targets, cancel, done, rlocks, nctx, ctxDone, panicked, pc, op,
                   closed, sinceStop, sinceHalt>>
    /\ UNCHANGED nonViewerVars
AddTarget(t) ==
    /\ ~panicked
    /\ WriterMayLock
    /\ Len(targets) < MaxTargets
    /\ ~closed[t]
    /\ targets' = Append(targets, t)
    /\ UNCHANGED <<provider, cancel, done, rlocks, nctx, ctxDone, panicked, pc, op, u,
                   closed, sinceStop, sinceHalt>>
    /\ UNCHANGED nonViewerVars

\* The loop of RemoveTarget: drop the first entry equal to t, if any.
RemoveFirst(s, t) ==
    IF \E j \in 1..Len(s) : s[j] = t
    THEN LET j == CHOOSE j \in 1..Len(s) : s[j] = t /\ \A m \in 1..(j - 1) : s[m] # t
         IN  SubSeq(s, 1, j - 1) \o SubSeq(s, j + 1, Len(s))
    ELSE s

RemoveTarget(t) ==
    /\ ~panicked
    /\ WriterMayLock
    /\ targets' = RemoveFirst(targets, t)
    /\ UNCHANGED <<provider, cancel, done, rlocks, nctx, ctxDone, panicked, pc, op, u,
                   closed, sinceStop, sinceHalt>>
    /\ UNCHANGED nonViewerVars

\* ------------------------------------------------------------- Update
\* copy(dst, src) into a dst made with n slots: min(n, len(src)) entries are
\* copied, the remaining slots keep the zero value (a nil Target).
CopySlice(n, src) == [j \in 1..n |-> IF j <= Len(src) THEN src[j] ELSE 0]

\* A caller invokes v.Update().
CallUpdate(p) ==
    /\ ~panicked
    /\ p \in Callers
    /\ pc[p] = "idle"
    /\ pc' = [pc EXCEPT ![p] = "u_begin"]
    /\ op' = [op EXCEPT ![p] = "Update"]
    /\ u' = Enter(p, Locals0)
    /\ UNCHANGED <<provider, targets, cancel, done, rlocks, nctx, ctxDone, panicked,
                   closed, sinceStop, sinceHalt>>
    /\ UNCHANGED nonViewerVars

\* An Update that takes a provider other than the one v.provider holds.
ProviderOther == CHOOSE pr \in 0..MaxProvider : pr # provider

\* provider := v.provider
ProviderRead == provider

\* v.mu.RLock(); provider := v.provider; targets := make([]Target, len(v.targets))
UpdateRLock(p) ==
    /\ ~panicked
    /\ pc[p] = "u_begin"
    /\ rlocks' = rlocks \cup {p}
    /\ u' = [u EXCEPT ![p].prov = ProviderRead, ![p].n = Len(targets),
                      ![p].atLock = targets]
    /\ pc' = [pc EXCEPT ![p] = "u_copy"]
    /\ UNCHANGED <<provider, targets, cancel, done, nctx, ctxDone, panicked, op,
                   closed, sinceStop, sinceHalt>>
    /\ UNCHANGED nonViewerVars

\* copy(targets, v.targets); v.mu.RUnlock()
UpdateCopy(p) ==
    /\ ~panicked
    /\ pc[p] = "u_copy"
    /\ u' = [u EXCEPT ![p].snap = CopySlice(u[p].n, targets), ![p].since = {}]
    /\ rlocks' = rlocks \ {p}
    /\ pc' = [pc EXCEPT ![p] = "u_fetch"]
    /\ UNCHANGED <<provider, targets, cancel, done, nctx, ctxDone, panicked, op,
                   closed, sinceStop, sinceHalt>>
    /\ UNCHANGED nonViewerVars

\* An Update that goes on to the fan-out although the fetch failed.
AfterFetchIgnoresError(fetchOk) == "u_disp"

\* Where Update goes after provider.GetViewState(): to the fan-out, or out.
AfterFetch(fetchOk) == IF fetchOk THEN "u_disp" ELSE "u_ret"

\* if provider == nil ...; state, err := provider.GetViewState(); if err != nil ...
\* A StaticStateProvider yields its fixed state (state k for provider k); a
\* CallbackStateProvider may fail.
UpdateFetch(p) ==
    /\ ~panicked
    /\ pc[p] = "u_fetch"
    /\ IF u[p].prov = 0
       THEN /\ u' = [u EXCEPT ![p].err = Err("no state provider set")]
            /\ pc' = [pc EXCEPT ![p] = "u_ret"]
       ELSE \E fetchOk \in BOOLEAN :
            /\ u' = [u EXCEPT ![p].fetches = @ + 1,
                              ![p].st = IF fetchOk THEN u[p].prov ELSE 0,
                              ![p].err = IF fetchOk THEN NoErr
                                         ELSE Err("failed to get view state")]
            /\ pc' = [pc EXCEPT ![p] = AfterFetch(fetchOk)]
    /\ UNCHANGED <<provider, targets, cancel, done, rlocks, nctx, ctxDone, panicked, op,
                   closed, sinceStop, sinceHalt>>
    /\ UNCHANGED nonViewerVars

\* An Update that keeps the first failure instead of the last.
RecordErrFirst(lastErr, t, ok) ==
    IF ok \/ lastErr # NoErr THEN lastErr ELSE TargetErr(t)

\* if err := target.Update(ctx, state); err != nil { lastErr = fmt.Errorf("target %s: %w", ...) }
RecordErr(lastErr, t, ok) == IF ok THEN lastErr ELSE TargetErr(t)

\* A fan-out that stops at the first target that fails.
NextIndexBreak(i, n, ok) == IF ok THEN i + 1 ELSE n

\* The range loop: the index after visiting entry i.
NextIndex(i, n, ok) == i + 1

\* The slice the fan-out ranges over: the copy made under the read lock.
RangeOver(p) == u[p].snap

\* One iteration of `for _, target := range targets`, or the loop's end and
\* `return lastErr`.  Calling Update on a nil Target panics.
UpdateDispatch(p) ==
    /\ ~panicked
    /\ pc[p] = "u_disp"
    /\ LET s == RangeOver(p)
           i == u[p].i + 1
       IN  IF i > Len(s)
           THEN /\ u' = [u EXCEPT ![p].err = u[p].lastErr]
                /\ pc' = [pc EXCEPT ![p] = "u_ret"]
                /\ UNCHANGED panicked
           ELSE IF s[i] = 0
           THEN /\ panicked' = TRUE
                /\ UNCHANGED <<u, pc>>
           ELSE \E ok \in BOOLEAN :
                /\ u' = [u EXCEPT ![p].i = NextIndex(u[p].i, Len(s), ok),
                                  ![p].lastErr = RecordErr(u[p].lastErr, s[i], ok),
                                  ![p].disp = Append(@, [t |-> s[i], ok |-> ok,
                                                         st |-> u[p].st])]
                /\ UNCHANGED <<pc, panicked>>
    /\ UNCHANGED <<provider, targets, cancel, done, rlocks, nctx, ctxDone, op,
                   closed, sinceStop, sinceHalt>>
    /\ UNCHANGED nonViewerVars

\* v.Update() returns to a caller that invoked it directly.
UpdateReturn(p) ==
    /\ ~panicked
    /\ pc[p] = "u_ret"
    /\ op[p] = "Update"
    /\ pc' = [pc EXCEPT ![p] = "idle"]
    /\ op' = [op EXCEPT ![p] = "none"]
    /\ u' = Leave(p)
    /\ UNCHANGED <<provider, targets, cancel, done, rlocks, nctx, ctxDone, panicked,
                   closed, sinceStop, sinceHalt>>
    /\ UNCHANGED nonViewerVars

\* ------------------------------------------------------ Start, run, Stop
\* The run goroutines that were spawned and have not returned.
ActiveLoops == {k \in Ctxs : pc[LoopThread(k)] \notin {"unborn", "exited"}}

\* A Start without the already-started guard.
AlreadyStartedNever == FALSE

\* if v.cancel != nil { return fmt.Errorf("viewer already started") }
AlreadyStarted == cancel # 0

\* Start, its section under v.mu.Lock(): the already-started guard, or
\* ctx, v.cancel = context.WithCancel(ctx).  The initial Update follows.
CallStart(p) ==
    /\ ~panicked
    /\ p \in Callers
    /\ pc[p] = "idle"
    /\ WriterMayLock
    /\ IF AlreadyStarted
       THEN /\ pc' = [pc EXCEPT ![p] = "st_ret"]
            /\ u' = Enter(p, [Locals0 EXCEPT !.err = Err("viewer already started"),
                                                     !.second = sinceStop,
                                                     !.again = sinceHalt,
                                                     !.live = ActiveLoops])
            /\ UNCHANGED <<cancel, nctx>>
       ELSE /\ nctx < MaxStarts
            /\ nctx' = nctx + 1
            /\ cancel' = nctx + 1
            /\ pc' = [pc EXCEPT ![p] = "u_begin"]
            /\ u' = Enter(p, [Locals0 EXCEPT !.ctx = nctx + 1,
                                                     !.second = sinceStop,
                                                     !.again = sinceHalt,
                                                     !.live = ActiveLoops])
    /\ op' = [op EXCEPT ![p] = "Start"]
    /\ sinceStop' = TRUE
    /\ sinceHalt' = TRUE
    /\ UNCHANGED <<provider, targets, done, rlocks, ctxDone, panicked, closed>>
    /\ UNCHANGED nonViewerVars

\* if err := v.Update(); err != nil { return err }; go v.run(ctx); return nil
StartAfterUpdate(p) ==
    /\ ~panicked
    /\ pc[p] = "u_ret"
    /\ op[p] = "Start"
    /\ IF u[p].err # NoErr
       THEN /\ pc' = [pc EXCEPT ![p] = "st_ret"]
            /\ UNCHANGED <<op, u>>
       ELSE /\ pc' = [pc EXCEPT ![p] = "st_ret", ![LoopThread(u[p].ctx)] = "select"]
            /\ op' = [op EXCEPT ![LoopThread(u[p].ctx)] = "run"]
            /\ u' = [u EXCEPT ![p].spawned = TRUE]
    /\ UNCHANGED <<provider, targets, cancel, done, rlocks, nctx, ctxDone, panicked,
                   closed, sinceStop, sinceHalt>>
    /\ UNCHANGED nonViewerVars
StartReturn(p) ==
    /\ ~panicked
    /\ pc[p] = "st_ret"
    /\ pc' = [pc EXCEPT ![p] = "idle"]
    /\ op' = [op EXCEPT ![p] = "none"]
    /\ u' = Leave(p)
    /\ UNCHANGED <<provider, targets, cancel, done, rlocks, nctx, ctxDone, panicked,
                   closed, sinceStop, sinceHalt>>
    /\ UNCHANGED nonViewerVars

\* The context handed to Start is cancelled by its owner.
CancelParent(k) ==
    /\ ~panicked
    /\ k <= nctx
    /\ ~ctxDone[k]
    /\ ctxDone' = [ctxDone EXCEPT ![k] = TRUE]
    /\ UNCHANGED <<provider, targets, cancel, done, rlocks, nctx, panicked, pc, op, u,
                   closed, sinceStop, sinceHalt>>
    /\ UNCHANGED nonViewerVars

\* run: case <-ticker.C: _ = v.Update().  A select with several ready cases
\* picks one at random, so a tick may be taken after the context is cancelled.
RunTick(q) ==
    /\ ~panicked
    /\ q \in LoopThreads
    /\ pc[q] = "select"
    /\ pc' = [pc EXCEPT ![q] = "u_begin"]
    /\ u' = Enter(q, Locals0)
    /\ UNCHANGED <<provider, targets, cancel, done, rlocks, nctx, ctxDone, panicked, op,
                   closed, sinceStop, sinceHalt>>
    /\ UNCHANGED nonViewerVars

\* A loop that ends when a tick's Update fails.
AfterTickStopOnError(err) == IF err = NoErr THEN "select" ELSE "exited"

\* _ = v.Update() // Ignore errors in background loop
AfterTick(err) == "select"

\* The tick's Update returns; its error is dropped.
RunUpdateReturn(q) ==
    /\ ~panicked
    /\ pc[q] = "u_ret"
    /\ op[q] = "run"
    /\ pc' = [pc EXCEPT ![q] = AfterTick(u[q].err)]
    /\ u' = Leave(q)
    /\ UNCHANGED <<provider, targets, cancel, done, rlocks, nctx, ctxDone, panicked, op,
                   closed, sinceStop, sinceHalt>>
    /\ UNCHANGED nonViewerVars

\* run: case <-ctx.Done(): return, with the deferred close(v.done).  Closing a
\* closed channel panics: the goroutine has left its loop and the process dies.
RunExit(k) ==
    /\ ~panicked
    /\ k \in Ctxs
    /\ pc[LoopThread(k)] = "select"
    /\ ctxDone[k]
    /\ pc' = [pc EXCEPT ![LoopThread(k)] = "exited"]
    /\ IF done
       THEN /\ panicked' = TRUE
            /\ UNCHANGED done
       ELSE /\ done' = TRUE
            /\ UNCHANGED panicked
    /\ UNCHANGED <<provider, targets, cancel, rlocks, nctx, ctxDone, op, u,
                   closed, sinceStop, sinceHalt>>
    /\ UNCHANGED nonViewerVars

\* if v.cancel != nil { v.cancel(); v.cancel = nil }
CancelCtx == IF cancel # 0 THEN [ctxDone EXCEPT ![cancel] = TRUE] ELSE ctxDone

\* Stop, its section under v.mu.Lock().
CallStop(p) ==
    /\ ~panicked
    /\ p \in Callers
    /\ pc[p] = "idle"
    /\ WriterMayLock
    /\ ctxDone' = CancelCtx
    /\ cancel' = 0
    /\ pc' = [pc EXCEPT ![p] = "sp_wait"]
    /\ op' = [op EXCEPT ![p] = "Stop"]
    /\ u' = Enter(p, [Locals0 EXCEPT !.live = ActiveLoops])
    /\ sinceStop' = FALSE
    /\ sinceHalt' = FALSE
    /\ UNCHANGED <<provider, targets, done, rlocks, nctx, panicked, closed>>
    /\ UNCHANGED nonViewerVars

\* <-v.done: a receive from a closed channel returns; from an open one it blocks.
DoneReceivable == done

StopWait(p) ==
    /\ ~panicked
    /\ pc[p] = "sp_wait"
    /\ DoneReceivable
    /\ pc' = [pc EXCEPT ![p] = "sp_ret"]
    /\ UNCHANGED <<provider, targets, cancel, done, rlocks, nctx, ctxDone, panicked, op, u,
                   closed, sinceStop, sinceHalt>>
    /\ UNCHANGED nonViewerVars
StopReturn(p) ==
    /\ ~panicked
    /\ pc[p] = "sp_ret"
    /\ pc' = [pc EXCEPT ![p] = "idle"]
    /\ op' = [op EXCEPT ![p] = "none"]
    /\ u' = Leave(p)
    /\ UNCHANGED <<provider, targets, cancel, done, rlocks, nctx, ctxDone, panicked,
                   closed, sinceStop, sinceHalt>>
    /\ UNCHANGED nonViewerVars

\* --------------------------------------------------------------- Close
\* Close, its section under v.mu.Lock(): cancel, targets := v.targets; v.targets = nil
CallClose(p) ==
    /\ ~panicked
    /\ p \in Callers
    /\ pc[p] = "idle"
    /\ WriterMayLock
    /\ ctxDone' = CancelCtx
    /\ cancel' = 0
    /\ targets' = <<>>
    /\ pc' = [pc EXCEPT ![p] = "c_loop"]
    /\ op' = [op EXCEPT ![p] = "Close"]
    /\ u' = Enter(p, [Locals0 EXCEPT !.snap = targets, !.n = Len(targets),
                                             !.atLock = targets,
                                             !.live = ActiveLoops])
    /\ sinceHalt' = FALSE
    /\ UNCHANGED <<provider, done, rlocks, nctx, panicked, closed, sinceStop>>
    /\ UNCHANGED nonViewerVars

\* if err := target.Close(); err != nil { lastErr = err }
RecordCloseErr(lastErr, t, ok) == IF ok THEN lastErr ELSE TargetErr(t)

\* A Close that returns at the first target whose close fails.
NextCloseIndexBreak(i, n, ok) == IF ok THEN i + 1 ELSE n

\* The range loop of Close: the index after visiting entry i.
NextCloseIndex(i, n, ok) == i + 1

\* One iteration of `for _, target := range targets` in Close, or its end.
CloseTarget(p) ==
    /\ ~panicked
    /\ pc[p] = "c_loop"
    /\ LET i == u[p].i + 1
       IN  IF i > u[p].n
           THEN /\ u' = [u EXCEPT ![p].err = u[p].lastErr]
                /\ pc' = [pc EXCEPT ![p] = "c_ret"]
                /\ UNCHANGED closed
           ELSE \E ok \in BOOLEAN :
                /\ u' = [u EXCEPT ![p].i = NextCloseIndex(u[p].i, u[p].n, ok),
                                  ![p].lastErr = RecordCloseErr(u[p].lastErr, u[p].snap[i], ok),
                                  ![p].disp = Append(@, [t |-> u[p].snap[i], ok |-> ok,
                                                         st |-> 0])]
                /\ closed' = [closed EXCEPT ![u[p].snap[i]] = TRUE]
                /\ UNCHANGED pc
    /\ UNCHANGED <<provider, targets, cancel, done, rlocks, nctx, ctxDone, panicked, op,
                   sinceStop, sinceHalt>>
    /\ UNCHANGED nonViewerVars
CloseReturn(p) ==
    /\ ~panicked
    /\ pc[p] = "c_ret"
    /\ pc' = [pc EXCEPT ![p] = "idle"]
    /\ op' = [op EXCEPT ![p] = "none"]
    /\ u' = Leave(p)
    /\ UNCHANGED <<provider, targets, cancel, done, rlocks, nctx, ctxDone, panicked,
                   closed, sinceStop, sinceHalt>>
    /\ UNCHANGED nonViewerVars

\* ------------------------------------------------------- specifications
UpdateSteps ==
    \/ \E p \in Threads : UpdateRLock(p)
    \/ \E p \in Threads : UpdateCopy(p)
    \/ \E p \in Threads : UpdateFetch(p)
    \/ \E p \in Threads : UpdateDispatch(p)

\* The fan-out: one caller refreshes, again and again, while other callers
\* change the provider and the target list.
Next ==
    \/ \E pr \in 0..NumProviders : SetStateProvider(pr)
    \/ \E t \in Targets : AddTarget(t)
    \/ \E t \in Targets : RemoveTarget(t)
    \/ \E p \in {1} : CallUpdate(p)
    \/ UpdateSteps
    \/ \E p \in {1} : UpdateReturn(p)

Spec == Init /\ [][Next]_vars

\* The lifecycle: a Viewer that was set up (a provider set, distinct targets
\* added, here in the order of their ids) is started, stopped and closed by
\* its callers.
SetupLists == {s \in UNION {[1..n -> Targets] : n \in 0..MaxTargets} :
                  \A i, j \in 1..Len(s) : i < j => s[i] < s[j]}

InitLife ==
    /\ TVInit
    /\ VideoInit
    /\ WebInit
    /\ JsonInit
    /\ provider = 1
    /\ targets \in SetupLists
    /\ cancel = 0
    /\ done = FALSE
    /\ rlocks = {}
    /\ nctx = 0
    /\ ctxDone = [k \in Ctxs |-> FALSE]
    /\ panicked = FALSE
    /\ pc = [p \in Threads |-> IF p \in Callers THEN "idle" ELSE "unborn"]
    /\ op = [p \in Threads |-> "none"]
    /\ u = [p \in {} |-> Locals0]
    /\ closed = [t \in Targets |-> FALSE]
    /\ sinceStop = FALSE
    /\ sinceHalt = FALSE

LifeSteps(C) ==
    \/ \E p \in C : CallStart(p)
    \/ \E p \in C : StartAfterUpdate(p)
    \/ \E p \in C : StartReturn(p)
    \/ \E k \in Ctxs : CancelParent(k)
    \/ \E q \in LoopThreads : RunTick(q)
    \/ \E q \in LoopThreads : RunUpdateReturn(q)
    \/ \E k \in Ctxs : RunExit(k)
    \/ \E p \in C : CallStop(p)
    \/ \E p \in C : StopWait(p)
    \/ \E p \in C : StopReturn(p)
    \/ \E p \in C : CallClose(p)
    \/ \E p \in C : CloseTarget(p)
    \/ \E p \in C : CloseReturn(p)
    \/ UpdateSteps

\* Any callers, concurrently.
NextLife == LifeSteps(Callers)

SpecLife == InitLife /\ [][NextLife]_vars

\* One caller: the calls on the Viewer are made one after another.
NextSeq == LifeSteps({1})

SpecSeq == InitLife /\ [][NextSeq]_vars

\* A Viewer set up with one target.
InitLoop == InitLife /\ targets = <<1>>

\* A Viewer with one target is started by one caller and its loop refreshes
\* while the provider is replaced, by any of the providers 1..MaxProvider or
\* by nil.
NextProv ==
    \/ \E pr \in 0..MaxProvider : SetStateProvider(pr)
    \/ \E p \in {1} : CallStart(p)
    \/ \E p \in {1} : StartAfterUpdate(p)
    \/ \E p \in {1} : StartReturn(p)
    \/ \E q \in LoopThreads : RunTick(q)
    \/ \E q \in LoopThreads : RunUpdateReturn(q)
    \/ UpdateSteps

SpecProv == InitLoop /\ [][NextProv]_vars

\* The steps of the refresh a run goroutine makes on a tick, and its return
\* to the select.
RunRefresh(q) ==
    \/ UpdateRLock(q)
    \/ UpdateCopy(q)
    \/ UpdateFetch(q)
    \/ UpdateDispatch(q)
    \/ RunUpdateReturn(q)

\* One caller, and goroutines that are scheduled: a refresh in progress goes
\* on (the provider and the targets return), a select that finds ctx.Done()
\* ready again and again takes that case in the end, since it chooses at
\* random among the ready cases, and a Stop whose receive can proceed proceeds.
SpecSeqFair ==
    /\ InitLoop
    /\ [][NextSeq]_vars
    /\ \A q \in LoopThreads : WF_vars(RunRefresh(q))
    /\ \A k \in Ctxs : SF_vars(RunExit(k))
    /\ \A p \in {1} : WF_vars(StopWait(p) \/ StopReturn(p))

\* ------------------------------------------------- SmartTVTarget.Update
\* Update begins: one more call is in progress.
TVBegin(c) ==
    /\ tvPc[c] = "idle"
    /\ tvCalls < MaxTVCalls
    /\ tvCalls' = tvCalls + 1
    /\ tvOverlap' = (tvOverlap \/ \E d \in TVCallers : d # c /\ tvPc[d] # "idle")

\* Update, up to the encoded image: t.sprites.Render returns a frame and
\* convertToJFIF / encodeJPEG return its bytes.  What the renderer and the
\* encoders produce is theirs to decide: img is the outcome.
TVRender(c, img) ==
    /\ TVBegin(c)
    /\ tvJpeg' = [tvJpeg EXCEPT ![c] = img]
    /\ tvSeen' = tvSeen \cup {img}
    /\ tvPc' = [tvPc EXCEPT ![c] = "compare"]
    /\ UNCHANGED <<lastImageBytes, tvErr, tvPushes, tvSkips, tvLastOk>>
    /\ UNCHANGED nonTVVars

\* Update, when Render returns nil ("failed to render frame") or the encoder
\* fails ("convert to JPEG"): the error is returned.
TVRenderFails(c, e) ==
    /\ TVBegin(c)
    /\ tvErr' = [tvErr EXCEPT ![c] = e]
    /\ tvPc' = [tvPc EXCEPT ![c] = "return"]
    /\ UNCHANGED <<lastImageBytes, tvJpeg, tvSeen, tvPushes, tvSkips, tvLastOk>>
    /\ UNCHANGED nonTVVars

\* A comparison that never finds the image unchanged.
ImageNeverUnchanged(jpegData, last) == FALSE

\* bytes.Equal(jpegData, t.lastImageBytes)
ImageUnchanged(jpegData, last) == jpegData = last

\* if bytes.Equal(jpegData, t.lastImageBytes) { return nil }
TVCompare(c) ==
    /\ tvPc[c] = "compare"
    /\ IF ImageUnchanged(tvJpeg[c], lastImageBytes)
       THEN /\ tvPc' = [tvPc EXCEPT ![c] = "return"]
            /\ tvSkips' = tvSkips + 1
       ELSE /\ tvPc' = [tvPc EXCEPT ![c] = "store"]
            /\ UNCHANGED tvSkips
    /\ UNCHANGED <<lastImageBytes, tvJpeg, tvErr, tvCalls, tvPushes, tvSeen, tvOverlap,
                   tvLastOk>>
    /\ UNCHANGED nonTVVars

\* t.lastImageBytes = jpegData
TVStore(c) ==
    /\ tvPc[c] = "store"
    /\ lastImageBytes' = tvJpeg[c]
    /\ tvPc' = [tvPc EXCEPT ![c] = "push"]
    /\ UNCHANGED <<tvJpeg, tvErr, tvCalls, tvPushes, tvSkips, tvSeen, tvOverlap, tvLastOk>>
    /\ UNCHANGED nonTVVars

\* t.renderer.DisplayImageJPEG(ctx, t.tv, jpegData), which may fail.
TVPush(c, ok) ==
    /\ tvPc[c] = "push"
    /\ tvPushes' = tvPushes + 1
    /\ tvErr' = [tvErr EXCEPT ![c] = IF ok THEN "nil" ELSE "display on TV"]
    /\ tvPc' = [tvPc EXCEPT ![c] = "return"]
    /\ tvLastOk' = IF ok THEN {tvJpeg[c]} ELSE tvLastOk
    /\ UNCHANGED <<lastImageBytes, tvJpeg, tvCalls, tvSkips, tvSeen, tvOverlap>>
    /\ UNCHANGED nonTVVars

TVReturn(c) ==
    /\ tvPc[c] = "return"
    /\ tvPc' = [tvPc EXCEPT ![c] = "idle"]
    /\ tvErr' = [tvErr EXCEPT ![c] = "nil"]
    /\ tvJpeg' = [tvJpeg EXCEPT ![c] = 0]
    /\ UNCHANGED <<lastImageBytes, tvCalls, tvPushes, tvSkips, tvSeen, tvOverlap, tvLastOk>>
    /\ UNCHANGED nonTVVars

RenderErrors == {"failed to render frame", "convert to JPEG"}

NextTV ==
    \/ \E c \in TVCallers, img \in Images : TVRender(c, img)
    \/ \E c \in TVCallers, e \in RenderErrors : TVRenderFails(c, e)
    \/ \E c \in TVCallers : TVCompare(c)
    \/ \E c \in TVCallers : TVStore(c)
    \/ \E c \in TVCallers, ok \in BOOLEAN : TVPush(c, ok)
    \/ \E c \in TVCallers : TVReturn(c)

SpecTV == Init /\ [][NextTV]_vars

\* ---------------------------------------------------------- VideoTarget
\* An Update that reports the failure of the Start in progress.
VideoUpdateReportsStart == IF vl.err # NoVErr THEN vl.err.stage ELSE "nil"

\* Update: t.mu.Lock(); t.state = state; t.mu.Unlock(); return nil
VideoUpdateResult == "nil"

VideoUpdate(snapshot) ==
    /\ vtState' = snapshot
    /\ vtUpd' = [ret |-> VideoUpdateResult, failed |-> vl.err # NoVErr]
    /\ UNCHANGED <<videoFile, httpServer, fps, duration, vpc, vl, vctxDone, ffmpeg, files,
                   nStarts, servers, listening>>
    /\ UNCHANGED nonVideoVars

\* The goroutine calls t.Start(ctx).
VideoStartCall ==
    /\ vpc = "idle"
    /\ nStarts < MaxVideoStarts
    /\ nStarts' = nStarts + 1
    /\ vl' = [VideoLocals0 EXCEPT !.call = "Start", !.id = nStarts + 1]
    /\ vctxDone' = FALSE
    /\ ffmpeg' = NoProcess
    /\ vpc' = "s_read"
    /\ UNCHANGED <<vtState, videoFile, httpServer, fps, duration, files, servers,
                   listening, vtUpd>>
    /\ UNCHANGED nonVideoVars

\* The ctx given to Start is cancelled while the call is in progress.
VideoCancel ==
    /\ vl.call = "Start"
    /\ ~vctxDone
    /\ vctxDone' = TRUE
    /\ UNCHANGED <<vtState, videoFile, httpServer, fps, duration, vpc, vl, ffmpeg, files,
                   nStarts, servers, listening, vtUpd>>
    /\ UNCHANGED nonVideoVars

\* A Start that takes a missing snapshot for a snapshot.
StateNeverMissing(state) == FALSE

\* if state == nil
StateMissing(state) == state = 0

\* t.mu.Lock(); state := t.state; t.mu.Unlock(); if state == nil { return error }
VideoStartRead ==
    /\ vpc = "s_read"
    /\ IF StateMissing(vtState)
       THEN /\ vl' = [vl EXCEPT !.err = VErr("no state set - call Update first", "nil")]
            /\ vpc' = "s_ret"
       ELSE /\ vl' = [vl EXCEPT !.state = vtState]
            /\ vpc' = "g_spawn"
    /\ UNCHANGED <<vtState, videoFile, httpServer, fps, duration, vctxDone, ffmpeg, files,
                   nStarts, servers, listening, vtUpd>>
    /\ UNCHANGED nonVideoVars

\* totalFrames := int(t.duration.Seconds()) * t.fps, the duration in half seconds.
TotalFrames(d, f) == (d \div 2) * f

SpawnOutcomes == {"ok", "create pipe", "start ffmpeg"}

\* generateVideo up to the loop: ffmpeg.StdinPipe() and ffmpeg.Start(), each of
\* which may fail.
VideoSpawn(outcome) ==
    /\ vpc = "g_spawn"
    /\ IF outcome = "ok"
       THEN /\ ffmpeg' = [st |-> "running", code |-> 0, stdin |-> "open"]
            /\ vl' = [vl EXCEPT !.ops = Append(@, [op |-> "launch", i |-> 0])]
            /\ vpc' = "g_head"
       ELSE /\ vl' = [vl EXCEPT !.err = VErr("generate video", outcome)]
            /\ vpc' = "s_ret"
            /\ UNCHANGED ffmpeg
    /\ UNCHANGED <<vtState, videoFile, httpServer, fps, duration, vctxDone, files, nStarts,
                   servers, listening, vtUpd>>
    /\ UNCHANGED nonVideoVars

\* for i := 0; i < totalFrames; i++ { select { case <-ctx.Done(): ...; default: }
VideoLoopHead ==
    /\ vpc = "g_head"
    /\ vpc' = IF vl.i >= TotalFrames(duration, fps) THEN "g_close"
              ELSE IF vctxDone THEN "g_cancel"
              ELSE "g_render"
    /\ UNCHANGED <<vtState, videoFile, httpServer, fps, duration, vl, vctxDone, ffmpeg, files,
                   nStarts, servers, listening, vtUpd>>
    /\ UNCHANGED nonVideoVars

\* A loop that goes on to the next frame without writing the one rendered.
AfterRenderNoWrite(frame) == "g_head"

\* if frame == nil { continue }; else the frame is written
AfterRender(frame) == IF frame THEN "g_write" ELSE "g_head"

\* frame := t.sprites.Render(adapter); if frame == nil { continue }
\* The entry in ops tells whether Render gave a frame.
VideoRender(frame) ==
    /\ vpc = "g_render"
    /\ vl' = [vl EXCEPT !.ops = Append(@, [op |-> "render", i |-> vl.i, frame |-> frame]),
                        !.i = IF AfterRender(frame) = "g_head" THEN @ + 1 ELSE @]
    /\ vpc' = AfterRender(frame)
    /\ UNCHANGED <<vtState, videoFile, httpServer, fps, duration, vctxDone, ffmpeg, files,
                   nStarts, servers, listening, vtUpd>>
    /\ UNCHANGED nonVideoVars

\* A write loop that goes on to the next frame after a failed write.
AfterWriteContinue(ok) == "g_head"

\* if _, err := ffmpegIn.Write(rgba.Pix); err != nil { break }
AfterWrite(ok) == IF ok THEN "g_head" ELSE "g_close"

\* The write into the encoder's standard input: it succeeds while the encoder
\* runs and fails once the encoder has exited (the pipe has no reader).
VideoWrite ==
    /\ vpc = "g_write"
    /\ LET ok == ffmpeg.st = "running"
       IN  /\ vl' = [vl EXCEPT !.ops = Append(@, [op |-> "write", i |-> vl.i]),
                               !.wfail = @ \/ ~ok,
                               !.i = IF AfterWrite(ok) = "g_head" THEN @ + 1 ELSE @]
           /\ vpc' = AfterWrite(ok)
    /\ UNCHANGED <<vtState, videoFile, httpServer, fps, duration, vctxDone, ffmpeg, files,
                   nStarts, servers, listening, vtUpd>>
    /\ UNCHANGED nonVideoVars

\* ffmpegIn.Close(), on the cancellation path and after the loop.
VideoCloseIn ==
    /\ vpc \in {"g_cancel", "g_close"}
    /\ ffmpeg' = [ffmpeg EXCEPT !.stdin = "closed"]
    /\ vl' = [vl EXCEPT !.ops = Append(@, [op |-> "closeIn", i |-> vl.i])]
    /\ vpc' = IF vpc = "g_cancel" THEN "g_cwait" ELSE "g_wait"
    /\ UNCHANGED <<vtState, videoFile, httpServer, fps, duration, vctxDone, files, nStarts, servers, listening, vtUpd>>
    /\ UNCHANGED nonVideoVars

\* case <-ctx.Done(): ...; ffmpeg.Wait(); return "", ctx.Err()
VideoCancelWait ==
    /\ vpc = "g_cwait"
    /\ ffmpeg.st = "exited"
    /\ vl' = [vl EXCEPT !.ops = Append(@, [op |-> "wait", i |-> vl.i]),
                        !.err = VErr("generate video", "context canceled")]
    /\ vpc' = "s_ret"
    /\ UNCHANGED <<vtState, videoFile, httpServer, fps, duration, vctxDone, ffmpeg, files,
                   nStarts, servers, listening, vtUpd>>
    /\ UNCHANGED nonVideoVars

\* A generateVideo that takes every exit of the encoder for a success.
EncodeNeverFailed(code) == FALSE

\* if err := ffmpeg.Wait(); err != nil
EncodeFailed(code) == code # 0

\* if err := ffmpeg.Wait(); err != nil { return "", "ffmpeg encode" }; return videoFile, nil
VideoWait ==
    /\ vpc = "g_wait"
    /\ ffmpeg.st = "exited"
    /\ IF EncodeFailed(ffmpeg.code)
       THEN /\ vl' = [vl EXCEPT !.ops = Append(@, [op |-> "wait", i |-> vl.i]),
                                !.err = VErr("generate video", "ffmpeg encode")]
            /\ vpc' = "s_ret"
       ELSE /\ vl' = [vl EXCEPT !.ops = Append(@, [op |-> "wait", i |-> vl.i]),
                                !.file = vl.id]
            /\ vpc' = "s_http"
    /\ UNCHANGED <<vtState, videoFile, httpServer, fps, duration, vctxDone, ffmpeg, files,
                   nStarts, servers, listening, vtUpd>>
    /\ UNCHANGED nonVideoVars

\* t.videoFile = videoFile; t.startHTTPServer(ctx): a new http.Server is made,
\* stored and started; ListenAndServe binds t.port unless a server listens on
\* it already, and its error is dropped.  startHTTPServer returns nil.
VideoServe ==
    /\ vpc = "s_http"
    /\ videoFile' = vl.file
    /\ httpServer' = vl.id
    /\ servers' = servers \cup {vl.id}
    /\ listening' = IF listening = {} THEN {vl.id} ELSE listening
    /\ vl' = [vl EXCEPT !.ops = Append(@, [op |-> "serve", i |-> vl.i])]
    /\ vpc' = "s_cast"
    /\ UNCHANGED <<vtState, fps, duration, vctxDone, ffmpeg, files, nStarts, vtUpd>>
    /\ UNCHANGED nonVideoVars

\* t.tvRenderer.StreamVideo(ctx, t.tv, videoURL, "nimsforest"), which may fail.
VideoCast(ok) ==
    /\ vpc = "s_cast"
    /\ vl' = [vl EXCEPT !.ops = Append(@, [op |-> "cast", i |-> vl.i]),
                        !.err = IF ok THEN NoVErr ELSE VErr("stream to TV", "StreamVideo")]
    /\ vpc' = "s_ret"
    /\ UNCHANGED <<vtState, videoFile, httpServer, fps, duration, vctxDone, ffmpeg, files,
                   nStarts, servers, listening, vtUpd>>
    /\ UNCHANGED nonVideoVars

\* Start returns vl.err.
VideoStartReturn ==
    /\ vpc = "s_ret"
    /\ vpc' = "idle"
    /\ vl' = VideoLocals0
    /\ vctxDone' = FALSE
    /\ ffmpeg' = NoProcess
    /\ UNCHANGED <<vtState, videoFile, httpServer, fps, duration, files, nStarts, servers,
                   listening, vtUpd>>
    /\ UNCHANGED nonVideoVars

\* The encoder process creates its output file.
EncoderCreatesFile ==
    /\ ffmpeg.st = "running"
    /\ vl.id \notin files
    /\ files' = files \cup {vl.id}
    /\ UNCHANGED <<vtState, videoFile, httpServer, fps, duration, vpc, vl, vctxDone, ffmpeg,
                   nStarts, servers, listening, vtUpd>>
    /\ UNCHANGED nonVideoVars

\* The encoder process exits: with status 0 once it has read its input to the
\* end and written the file, or with another status at any time (it fails, or
\* exec.CommandContext kills it because ctx is cancelled).
EncoderExits(code) ==
    /\ ffmpeg.st = "running"
    /\ code = 0 => ffmpeg.stdin = "closed"
    /\ ffmpeg' = [ffmpeg EXCEPT !.st = "exited", !.code = code]
    /\ files' = IF code = 0 THEN files \cup {vl.id} ELSE files
    /\ UNCHANGED <<vtState, videoFile, httpServer, fps, duration, vpc, vl, vctxDone, nStarts, servers, listening, vtUpd>>
    /\ UNCHANGED nonVideoVars

\* The goroutine calls t.Close().
VideoCloseCall ==
    /\ vpc = "idle"
    /\ vl' = [VideoLocals0 EXCEPT !.call = "Close"]
    /\ vpc' = "c_http"
    /\ UNCHANGED <<vtState, videoFile, httpServer, fps, duration, vctxDone, ffmpeg, files,
                   nStarts, servers, listening, vtUpd>>
    /\ UNCHANGED nonVideoVars

\* A Close that returns at the first cleanup that fails.
AfterCleanupStop(next, ok) == IF ok THEN next ELSE "c_ret"

\* Close drops what each cleanup returns and goes on to the next.
AfterCleanup(next, ok) == next

\* if t.httpServer != nil { t.httpServer.Shutdown(context.Background()) }
VideoCloseServer(ok) ==
    /\ vpc = "c_http"
    /\ IF httpServer # 0
       THEN /\ listening' = listening \ {httpServer}
            /\ vl' = [vl EXCEPT !.cleanups = Append(@, [what |-> "endpoint", ok |-> ok])]
            /\ vpc' = AfterCleanup("c_sprites", ok)
       ELSE /\ vpc' = "c_sprites"
            /\ UNCHANGED <<listening, vl>>
    /\ UNCHANGED <<vtState, videoFile, httpServer, fps, duration, vctxDone, ffmpeg, files,
                   nStarts, servers, vtUpd>>
    /\ UNCHANGED nonVideoVars

\* if t.sprites != nil { t.sprites.Close() }: NewVideoTarget always sets t.sprites.
VideoCloseRenderer(ok) ==
    /\ vpc = "c_sprites"
    /\ vl' = [vl EXCEPT !.cleanups = Append(@, [what |-> "renderer", ok |-> ok])]
    /\ vpc' = AfterCleanup("c_tv", ok)
    /\ UNCHANGED <<vtState, videoFile, httpServer, fps, duration, vctxDone, ffmpeg, files,
                   nStarts, servers, listening, vtUpd>>
    /\ UNCHANGED nonVideoVars

\* if t.tvRenderer != nil { t.tvRenderer.Close() }: NewVideoTarget always sets it.
VideoCloseTransport(ok) ==
    /\ vpc = "c_tv"
    /\ vl' = [vl EXCEPT !.cleanups = Append(@, [what |-> "transport", ok |-> ok])]
    /\ vpc' = AfterCleanup("c_file", ok)
    /\ UNCHANGED <<vtState, videoFile, httpServer, fps, duration, vctxDone, ffmpeg, files,
                   nStarts, servers, listening, vtUpd>>
    /\ UNCHANGED nonVideoVars

\* if t.videoFile != "" { os.Remove(t.videoFile) }; return nil
VideoCloseFile(ok) ==
    /\ vpc = "c_file"
    /\ IF videoFile # 0
       THEN /\ files' = IF ok THEN files \ {videoFile} ELSE files
            /\ vl' = [vl EXCEPT !.cleanups = Append(@, [what |-> "file", ok |-> ok])]
       ELSE UNCHANGED <<files, vl>>
    /\ vpc' = "c_ret"
    /\ UNCHANGED <<vtState, videoFile, httpServer, fps, duration, vctxDone, ffmpeg, nStarts, servers, listening, vtUpd>>
    /\ UNCHANGED nonVideoVars

\* Close returns nil.
VideoCloseReturn ==
    /\ vpc = "c_ret"
    /\ vpc' = "idle"
    /\ vl' = VideoLocals0
    /\ UNCHANGED <<vtState, videoFile, httpServer, fps, duration, vctxDone, ffmpeg, files,
                   nStarts, servers, listening, vtUpd>>
    /\ UNCHANGED nonVideoVars

\* A VideoTarget made with any of the frame rates and durations.
InitVideo ==
    /\ ViewerInit
    /\ TVInit
    /\ WebInit
    /\ JsonInit
    /\ \E f \in FrameRates, d \in Durations : VideoNew(f, d)

NextVideo ==
    \/ \E snapshot \in Snapshots : VideoUpdate(snapshot)
    \/ VideoStartCall
    \/ VideoCancel
    \/ VideoStartRead
    \/ \E outcome \in SpawnOutcomes : VideoSpawn(outcome)
    \/ VideoLoopHead
    \/ \E frame \in BOOLEAN : VideoRender(frame)
    \/ VideoWrite
    \/ VideoCloseIn
    \/ VideoCancelWait
    \/ VideoWait
    \/ VideoServe
    \/ \E ok \in BOOLEAN : VideoCast(ok)
    \/ VideoStartReturn
    \/ EncoderCreatesFile
    \/ \E code \in 0..1 : EncoderExits(code)
    \/ VideoCloseCall
    \/ \E ok \in BOOLEAN : VideoCloseServer(ok)
    \/ \E ok \in BOOLEAN : VideoCloseRenderer(ok)
    \/ \E ok \in BOOLEAN : VideoCloseTransport(ok)
    \/ \E ok \in BOOLEAN : VideoCloseFile(ok)
    \/ VideoCloseReturn

SpecVideo == InitVideo /\ [][NextVideo]_vars

\* The VideoTarget with a TV on which StreamVideo succeeds: a Start returns nil
\* exactly if its generateVideo returned a file.
NextVideoCastOk ==
    \/ \E snapshot \in Snapshots : VideoUpdate(snapshot)
    \/ VideoStartCall
    \/ VideoCancel
    \/ VideoStartRead
    \/ \E outcome \in SpawnOutcomes : VideoSpawn(outcome)
    \/ VideoLoopHead
    \/ \E frame \in BOOLEAN : VideoRender(frame)
    \/ VideoWrite
    \/ VideoCloseIn
    \/ VideoCancelWait
    \/ VideoWait
    \/ VideoServe
    \/ VideoCast(TRUE)
    \/ VideoStartReturn
    \/ EncoderCreatesFile
    \/ \E code \in 0..1 : EncoderExits(code)
    \/ VideoCloseCall
    \/ \E ok \in BOOLEAN : VideoCloseServer(ok)
    \/ \E ok \in BOOLEAN : VideoCloseRenderer(ok)
    \/ \E ok \in BOOLEAN : VideoCloseTransport(ok)
    \/ \E ok \in BOOLEAN : VideoCloseFile(ok)
    \/ VideoCloseReturn

SpecVideoCastOk == InitVideo /\ [][NextVideoCastOk]_vars

\* ------------------------------------------------------------ WebTarget
\* Caller c invokes t.Update(ctx, snapshot).
WebUpdateCall(c, snapshot) ==
    /\ wpc[c] = "idle"
    /\ Len(webLog) + Cardinality({d \in WebCallers : wpc[d] = "write"}) < MaxWebUpdates
    /\ wl' = [wl EXCEPT ![c] = [WebLocals0 EXCEPT !.state = snapshot]]
    /\ wpc' = [wpc EXCEPT ![c] = "write"]
    /\ UNCHANGED <<webState, started, server, listeners, rpc, rl, webLog, webReturned,
                   webMu, cpc, webShut>>
    /\ UNCHANGED nonWebVars

\* t.mu.Lock(); t.state = state; wasStarted := t.started; t.mu.Unlock()
\* if !wasStarted { return t.start() }
WebUpdateWrite(c) ==
    /\ wpc[c] = "write"
    /\ webMu = "free"
    /\ webState' = wl[c].state
    /\ webLog' = Append(webLog, wl[c].state)
    /\ wl' = [wl EXCEPT ![c].wasStarted = started, ![c].n = Len(webLog) + 1]
    /\ wpc' = [wpc EXCEPT ![c] = IF started THEN "ret" ELSE "start"]
    /\ UNCHANGED <<started, server, listeners, rpc, rl, webReturned,
                   webMu, cpc, webShut>>
    /\ UNCHANGED nonWebVars

\* A start that does not look at t.started.
NeverStarted == FALSE

\* start(): if t.started { return nil }
StartedAlready == started

\* start(): under t.mu.Lock(), unless started: make the server, run
\* ListenAndServe in a goroutine, set t.started.  It returns nil.
WebStart(c) ==
    /\ wpc[c] = "start"
    /\ webMu = "free"
    /\ IF StartedAlready
       THEN UNCHANGED <<server, listeners, started>>
       ELSE /\ server' = listeners + 1
            /\ listeners' = listeners + 1
            /\ started' = TRUE
    /\ wpc' = [wpc EXCEPT ![c] = "ret"]
    /\ UNCHANGED <<webState, wl, rpc, rl, webLog, webReturned,
                   webMu, cpc, webShut>>
    /\ UNCHANGED nonWebVars

\* Update returns nil to caller c.
WebUpdateReturn(c) ==
    /\ wpc[c] = "ret"
    /\ wpc' = [wpc EXCEPT ![c] = "idle"]
    /\ webReturned' = IF wl[c].n > webReturned THEN wl[c].n ELSE webReturned
    /\ wl' = [wl EXCEPT ![c] = WebLocals0]
    /\ UNCHANGED <<webState, started, server, listeners, rpc, rl, webLog,
                   webMu, cpc, webShut>>
    /\ UNCHANGED nonWebVars

\* A request for /api/viewmodel arrives: through t.server while it listens,
\* and else through an embedding of Handler().
WebRequest(r) ==
    /\ rpc[r] = "idle"
    /\ rl' = [rl EXCEPT ![r] = [HandlerLocals0 EXCEPT !.floor = webReturned,
                                                      !.own = (server # 0 /\ ~webShut)]]
    /\ rpc' = [rpc EXCEPT ![r] = "read"]
    /\ UNCHANGED <<webState, started, server, listeners, wpc, wl, webLog, webReturned,
                   webMu, cpc, webShut>>
    /\ UNCHANGED nonWebVars

\* A handler that encodes no snapshot, whatever the target holds.
HeldStateIgnored(held) == 0

\* state := t.state
HeldState(held) == held

\* handleViewmodel: t.mu.RLock(); state := t.state; t.mu.RUnlock()
WebHandlerRead(r) ==
    /\ rpc[r] = "read"
    /\ webMu = "free"
    /\ rl' = [rl EXCEPT ![r].state = HeldState(webState), ![r].n = Len(webLog)]
    /\ rpc' = [rpc EXCEPT ![r] = "encode"]
    /\ UNCHANGED <<webState, started, server, listeners, wpc, wl, webLog, webReturned,
                   webMu, cpc, webShut>>
    /\ UNCHANGED nonWebVars

\* WorldJSON{}: no lands and a zero summary.
EmptyWorldJSON == [kind |-> "world", of |-> 0]

\* ViewStateToJSON: WorldJSON{} for a nil state, else the lands and the summary
\* of the state.
ViewStateToJSON(state) == IF state = 0 THEN EmptyWorldJSON ELSE [kind |-> "world", of |-> state]

\* if state == nil { Encode(WorldJSON{}); return }; Encode(ViewStateToJSON(state))
WebHandlerEncode(r) ==
    /\ rpc[r] = "encode"
    /\ rl' = [rl EXCEPT ![r].doc = IF rl[r].state = 0 THEN EmptyWorldJSON
                                   ELSE ViewStateToJSON(rl[r].state)]
    /\ rpc' = [rpc EXCEPT ![r] = "done"]
    /\ UNCHANGED <<webState, started, server, listeners, wpc, wl, webLog, webReturned,
                   webMu, cpc, webShut>>
    /\ UNCHANGED nonWebVars

\* The response has been sent.
WebRequestDone(r) ==
    /\ rpc[r] = "done"
    /\ rl' = [rl EXCEPT ![r] = HandlerLocals0]
    /\ rpc' = [rpc EXCEPT ![r] = "idle"]
    /\ UNCHANGED <<webState, started, server, listeners, wpc, wl, webLog, webReturned,
                   webMu, cpc, webShut>>
    /\ UNCHANGED nonWebVars

NextWeb ==
    \/ \E c \in WebCallers, snapshot \in Snapshots : WebUpdateCall(c, snapshot)
    \/ \E c \in WebCallers : WebUpdateWrite(c)
    \/ \E c \in WebCallers : WebStart(c)
    \/ \E c \in WebCallers : WebUpdateReturn(c)
    \/ \E r \in Requests : WebRequest(r)
    \/ \E r \in Requests : WebHandlerRead(r)
    \/ \E r \in Requests : WebHandlerEncode(r)
    \/ \E r \in Requests : WebRequestDone(r)

SpecWeb == Init /\ [][NextWeb]_vars

\* ------------------------------------------------------- WebTarget.Close
\* A goroutine invokes t.Close().
WebCloseCall ==
    /\ cpc = "idle"
    /\ cpc' = "c_lock"
    /\ UNCHANGED <<webState, started, server, listeners, wpc, wl, rpc, rl, webLog,
                   webReturned, webMu, webShut>>
    /\ UNCHANGED nonWebVars

\* t.mu.Lock(); defer t.mu.Unlock(); if t.server != nil { ...Shutdown... }; return nil
\* Shutdown first closes the listener.
WebCloseLock ==
    /\ cpc = "c_lock"
    /\ webMu = "free"
    /\ webMu' = "Close"
    /\ cpc' = IF server # 0 THEN "c_shut" ELSE "c_ret"
    /\ webShut' = (webShut \/ server # 0)
    /\ UNCHANGED <<webState, started, server, listeners, wpc, wl, rpc, rl, webLog,
                   webReturned>>
    /\ UNCHANGED nonWebVars

\* The requests that came in through t.server and were not answered yet.
InFlight == {r \in Requests : rpc[r] # "idle" /\ rl[r].own}

\* Shutdown(context.Background()): the context never expires, so Shutdown
\* returns only when no connection of the server is serving a request.
ShutdownMayReturn == InFlight = {}

\* return t.server.Shutdown(context.Background())
WebShutdown ==
    /\ cpc = "c_shut"
    /\ ShutdownMayReturn
    /\ cpc' = "c_ret"
    /\ UNCHANGED <<webState, started, server, listeners, wpc, wl, rpc, rl, webLog,
                   webReturned, webMu, webShut>>
    /\ UNCHANGED nonWebVars

\* Close returns; the deferred t.mu.Unlock() runs.
WebCloseReturn ==
    /\ cpc = "c_ret"
    /\ cpc' = "idle"
    /\ webMu' = "free"
    /\ UNCHANGED <<webState, started, server, listeners, wpc, wl, rpc, rl, webLog,
                   webReturned, webShut>>
    /\ UNCHANGED nonWebVars

\* The steps of the request handlers and of Close: goroutines that run
\* whenever they can.
WebHandlerSteps ==
    \/ \E r \in Requests : WebHandlerRead(r)
    \/ \E r \in Requests : WebHandlerEncode(r)
    \/ \E r \in Requests : WebRequestDone(r)

WebCloseSteps ==
    \/ WebCloseLock
    \/ WebShutdown
    \/ WebCloseReturn

\* One goroutine updates the target, requests come in, the target is closed.
NextWebClose ==
    \/ \E c \in {1}, snapshot \in Snapshots : WebUpdateCall(c, snapshot)
    \/ \E c \in {1} : WebUpdateWrite(c)
    \/ \E c \in {1} : WebStart(c)
    \/ \E c \in {1} : WebUpdateReturn(c)
    \/ \E r \in Requests : WebRequest(r)
    \/ WebCloseCall
    \/ WebHandlerSteps
    \/ WebCloseSteps

\* Every goroutine that can take a step does take one.
SpecWebClose ==
    /\ Init
    /\ [][NextWebClose]_vars
    /\ \A r \in Requests :
           WF_vars(WebHandlerRead(r) \/ WebHandlerEncode(r) \/ WebRequestDone(r))
    /\ WF_vars(WebCloseSteps)
    /\ WF_vars(\E c \in {1} : WebUpdateWrite(c) \/ WebStart(c) \/ WebUpdateReturn(c))

\* ------------------------------------------------------ ViewStateToJSON
\* A float64 quotient, kept exact: num / den.  den = 0 is a division by zero.
Ratio(num, den) == [num |-> num, den |-> den]

\* A calculateOccupancy that divides whatever the total is.
calculateOccupancyUnguarded(allocated, total) == Ratio(allocated, total)

\* if total == 0 { return 0 }; return float64(allocated) / float64(total)
calculateOccupancy(allocated, total) ==
    IF total = 0 THEN Ratio(0, 1) ELSE Ratio(allocated, total)

\* A summary that counts the land records instead of copying TotalLands.
LandCountOf(state) == Len(state.Lands)

\* LandCount: state.Summary.TotalLands
LandCountFrom(state) == state.Summary.TotalLands

\* The SummaryJSON literal of ViewStateToJSON.
SummaryToJSON(state) ==
    [LandCount |-> LandCountFrom(state),
     TotalRAM |-> state.Summary.TotalRAM,
     RAMAllocated |-> state.Summary.AllocatedRAM,
     Occupancy |-> calculateOccupancy(state.Summary.AllocatedRAM, state.Summary.TotalRAM)]

\* The LandJSON entries: one per land, its RAM figures copied.
LandsToJSON(state) ==
    [i \in 1..Len(state.Lands) |->
        [RAMTotal |-> state.Lands[i].RAMTotal, RAMAllocated |-> state.Lands[i].RAMAllocated]]

\* ViewStateToJSON(state) of a state that is not nil.
JsonConvert ==
    /\ jsWorld = {}
    /\ jsWorld' = {[Lands |-> LandsToJSON(jsState), Summary |-> SummaryToJSON(jsState)]}
    /\ UNCHANGED jsState
    /\ UNCHANGED nonJsonVars

\* Any ViewState is a possible input.
InitJson ==
    /\ ViewerInit
    /\ TVInit
    /\ VideoInit
    /\ WebInit
    /\ jsState \in ViewStates
    /\ jsWorld = {}

NextJson == JsonConvert

SpecJson == InitJson /\ [][NextJson]_vars

\* ================================================================ claims
\* The indices of the calls of one invocation that failed.
Failed(d) == {j \in 1..Len(d) : ~d[j].ok}

\* The targets one invocation called, in order.
Called(d) == [j \in 1..Len(d) |-> d[j].t]

\* Thread p is at the return of an Update that got a snapshot from the provider.
FannedOut(p) == pc[p] = "u_ret" /\ u[p].st # 0

\* C1: when exactly one target's update fails during one Viewer.Update, the
\* error returned names that target, and update was called exactly once on
\* every entry of the copied list, in order, wherever the failing entry is.
C1_OneFailureNamedOthersUpdated ==
    \A p \in Threads :
        (FannedOut(p) /\ Cardinality(Failed(u[p].disp)) = 1) =>
            /\ \A j \in Failed(u[p].disp) : u[p].err = TargetErr(u[p].disp[j].t)
            /\ Called(u[p].disp) = u[p].snap

\* C1 witness: a two-target Update whose first target failed and whose second
\* succeeded has returned the first target's error.
C1_Witness ==
    \E p \in Threads :
        /\ FannedOut(p)
        /\ Len(u[p].snap) = MaxTargets
        /\ Failed(u[p].disp) = {1}
        /\ Len(u[p].disp) = MaxTargets
        /\ u[p].err = TargetErr(u[p].snap[1])

Last(S) == CHOOSE j \in S : \A m \in S : m <= j

NoSnapshot(p) ==
    /\ pc[p] = "u_ret"
    /\ u[p].prov = 0 \/ (u[p].fetches = 1 /\ u[p].st = 0)

\* Thread p takes a step of Update before the fan-out.
BeforeFanOutStep(p) == pc[p] \in {"u_begin", "u_copy", "u_fetch"} /\ pc'[p] # pc[p]

\* C3: an Update with no provider, or whose fetch failed, returns an error and
\* has called update on no target, so that no target's last-pushed state has
\* changed; no step it takes changes the target list.
C3_NoSnapshotTouchesNothing ==
    /\ [](\A p \in Threads :
            NoSnapshot(p) =>
                /\ u[p].err.kind \in {"no state provider set", "failed to get view state"}
                /\ u[p].disp = <<>>)
    /\ [][\A p \in Threads :
            BeforeFanOutStep(p) => targets' = targets]_vars

\* C3 witness: an Update whose provider failed returns the fetch error while
\* it holds a full copied list of targets, none of which it has called.
C3_Witness ==
    \E p \in Threads :
        /\ NoSnapshot(p) /\ u[p].prov # 0
        /\ u[p].err.kind = "failed to get view state"
        /\ Len(u[p].snap) = MaxTargets
        /\ u[p].disp = <<>>

\* C4 as stated: a Start begun after another Start, with no Stop begun in
\* between, returns the already-started error without a refresh or a new loop.
C4_SecondStartRejected ==
    \A p \in Callers :
        (op[p] = "Start" /\ u[p].second) =>
            /\ pc[p] = "st_ret"
            /\ u[p].err = Err("viewer already started")
            /\ u[p].fetches = 0 /\ u[p].disp = <<>> /\ ~u[p].spawned

\* C4 amended: a Start begun after another Start, with neither a Stop nor a
\* Close begun in between, returns the already-started error without a
\* refresh or a new loop.
C4_StartRejectedUnlessStoppedOrClosed ==
    \A p \in Callers :
        (op[p] = "Start" /\ u[p].again) =>
            /\ pc[p] = "st_ret"
            /\ u[p].err = Err("viewer already started")
            /\ u[p].fetches = 0 /\ u[p].disp = <<>> /\ ~u[p].spawned

\* C4 witness: a second Start has been rejected while the first Start's loop runs.
C4_Witness ==
    \E p \in Callers :
        /\ op[p] = "Start" /\ u[p].again /\ pc[p] = "st_ret"
        /\ u[p].err = Err("viewer already started")
        /\ ActiveLoops # {}

\* C5: at most one run goroutine is active at any time.
C5_AtMostOneLoop == Cardinality(ActiveLoops) <= 1

\* C6: when Stop returns, every run goroutine that was active when that Stop
\* was called has exited.
C6_StopReturnsAfterLoopExit ==
    \A p \in Callers :
        (op[p] = "Stop" /\ pc[p] = "sp_ret") =>
            \A k \in u[p].live : pc[LoopThread(k)] = "exited"

\* C7: Close calls close exactly once on every entry of the target list it
\* took, in order, whether or not an earlier close failed, and returns an
\* error exactly if some close failed.
C7_CloseVisitsEveryTarget ==
    \A p \in Callers :
        (op[p] = "Close" /\ pc[p] = "c_ret") =>
            /\ Called(u[p].disp) = u[p].atLock
            /\ (u[p].err # NoErr) <=> (Failed(u[p].disp) # {})

\* C7 witness: a Close of two targets whose first close failed has closed the
\* second too and returns an error.
C7_Witness ==
    \E p \in Callers :
        /\ op[p] = "Close" /\ pc[p] = "c_ret"
        /\ Len(u[p].atLock) = MaxTargets
        /\ Failed(u[p].disp) = {1}
        /\ Len(u[p].disp) = MaxTargets
        /\ u[p].err # NoErr

\* Run goroutine q takes a step that calls update on one more target.
LoopUpdatesTarget(q) ==
    /\ q \in DOMAIN u
    /\ q \in DOMAIN u'
    /\ Len(u'[q].disp) > Len(u[q].disp)

\* C8: no update made by a run goroutine is made on a target on which
\* Viewer.Close has already called close.
C8_NoLoopUpdateAfterClose ==
    [][\A q \in LoopThreads :
          LoopUpdatesTarget(q) => ~closed[u'[q].disp[Len(u'[q].disp)].t]]_vars

\* C9: the list one Update dispatches to is the target list as it stood when
\* the invocation took the read lock; at every moment the targets it has
\* called are a prefix of that list, and at its return they are the whole list.
C9_DispatchFollowsOneSnapshot ==
    \A p \in Threads :
        /\ pc[p] \in {"u_fetch", "u_disp", "u_ret"} => u[p].snap = u[p].atLock
        /\ pc[p] \in {"u_disp", "u_ret"} =>
               Called(u[p].disp) = SubSeq(u[p].atLock, 1, Len(u[p].disp))
        /\ FannedOut(p) => Called(u[p].disp) = u[p].atLock

\* C9 witness: an Update has dispatched to both targets of its copy although
\* the target list was changed meanwhile.
C9_Witness ==
    \E p \in Threads :
        /\ FannedOut(p)
        /\ Len(u[p].disp) = MaxTargets
        /\ targets # u[p].atLock

\* C10: Update calls on one SmartTVTarget that ran one after another and all
\* encoded to the same bytes have made at most one push to the display.
C10_IdenticalImagesPushedOnce ==
    (~tvOverlap /\ Cardinality(tvSeen) <= 1) => tvPushes <= 1

\* C10 witness: every allowed Update call was made in sequence and encoded to
\* the same non-empty image; the first pushed it, every later one skipped the
\* push, and all have returned.
C10_Witness ==
    /\ ~tvOverlap
    /\ tvSeen = {1}
    /\ tvCalls = MaxTVCalls
    /\ \A c \in TVCallers : tvPc[c] = "idle"
    /\ tvPushes = 1
    /\ tvSkips = MaxTVCalls - 1

\* Caller c's Update returns at the unchanged-image check, without a push.
TVSkipsPush(c) == tvPc[c] = "compare" /\ tvPc'[c] = "return"

\* C11: among Update calls made one after another, one with a non-empty image
\* is skipped at the unchanged-image check only if its bytes are those of the
\* last push that succeeded; after a failed push the same bytes are pushed again.
C11_SkipOnlyAfterSuccessfulPush ==
    [][\A c \in TVCallers :
          (~tvOverlap /\ TVSkipsPush(c) /\ tvJpeg[c] # 0) => tvJpeg[c] \in tvLastOk]_vars

\* The steps of kind k among the steps of the VideoTarget call in progress.
VideoOps(k) == {j \in 1..Len(vl.ops) : vl.ops[j].op = k}

\* The frame indices the call in progress has rendered, in order.
RenderedFrames ==
    LET R(j) == Cardinality({m \in VideoOps("render") : m <= j})
    IN  [n \in 1..Cardinality(VideoOps("render")) |->
            vl.ops[CHOOSE j \in VideoOps("render") : R(j) = n].i]

\* The call in progress has neither started the endpoint nor contacted the display.
NotServedNorCast == VideoOps("serve") = {} /\ VideoOps("cast") = {}

\* C12: when Start returns because ctx was cancelled during frame generation,
\* no encoder process is running and the output file of the call is not on disk.
C12_CancelLeavesNothing ==
    (vpc = "s_ret" /\ vl.err = VErr("generate video", "context canceled")) =>
        /\ ffmpeg.st # "running"
        /\ vl.id \notin files

\* Start has awaited, after the frame loop, an encoder that exited with a
\* non-zero status.
AwaitedFailedEncoder ==
    /\ vl.call = "Start"
    /\ ffmpeg.st = "exited" /\ ffmpeg.code # 0
    /\ VideoOps("wait") # {}
    /\ vl.err.cause # "context canceled"

\* C13: when the encoder exits with a non-zero status, Start returns the
\* encode error, the output file of the call is not on disk, and Start has
\* neither started the endpoint nor contacted the display.
C13_EncoderFailureCleansUp ==
    AwaitedFailedEncoder =>
        /\ vpc = "s_ret"
        /\ vl.err = VErr("generate video", "ffmpeg encode")
        /\ vl.id \notin files
        /\ NotServedNorCast

C15_EndpointStartedOnce == Cardinality(servers) <= 1

\* C16: a Start that found no stored snapshot returns the no-state error and
\* has launched no encoder, started no endpoint and not contacted the display.
C16_NoStateNoSideEffect ==
    (vl.call = "Start" /\ vpc # "s_read" /\ vl.state = 0) =>
        /\ vpc = "s_ret"
        /\ vl.err = VErr("no state set - call Update first", "nil")
        /\ vl.ops = <<>>
        /\ ffmpeg = NoProcess

\* C16 witness: a Start on a target that never got a snapshot returns the
\* no-state error.
C16_Witness ==
    /\ vpc = "s_ret"
    /\ vtState = 0 /\ vl.state = 0
    /\ vl.err = VErr("no state set - call Update first", "nil")
    /\ vl.ops = <<>>

\* C17: Update always returns nil, and a step that stores a snapshot changes
\* nothing else of the target: no render, encoder, endpoint, display or file.
C17_UpdateOnlyStores ==
    /\ [](vtUpd.ret = "nil")
    /\ [][(vtState' # vtState \/ vtUpd' # vtUpd) =>
             UNCHANGED <<videoFile, httpServer, vpc, vl, vctxDone, ffmpeg, files,
                         nStarts, servers, listening>>]_vars

\* C17 witness: an Update that ran after its target's Start had failed, and
\* before that Start returned, stored its snapshot and returned nil.
C17_Witness ==
    /\ vtUpd.failed
    /\ vtUpd.ret = "nil"
    /\ vtState # 0
    /\ vpc = "s_ret" /\ vl.err = VErr("generate video", "ffmpeg encode")

\* The cleanups a Close has to attempt: the endpoint if a server was made, the
\* renderer, the transport handle, the file if one was recorded.
CleanupsDue ==
    (IF httpServer # 0 THEN <<"endpoint">> ELSE <<>>)
        \o <<"renderer", "transport">>
        \o (IF videoFile # 0 THEN <<"file">> ELSE <<>>)

\* The cleanups the Close in progress has attempted, in order.
CleanupsTried == [j \in 1..Len(vl.cleanups) |-> vl.cleanups[j].what]

\* C18: when Close returns it has attempted every cleanup there is to attempt,
\* in order, whatever the earlier ones returned; until then it has attempted
\* a prefix of them.
C18_CloseAttemptsEveryCleanup ==
    vl.call = "Close" =>
        /\ Len(CleanupsTried) <= Len(CleanupsDue)
        /\ CleanupsTried = SubSeq(CleanupsDue, 1, Len(CleanupsTried))
        /\ vpc = "c_ret" => CleanupsTried = CleanupsDue

\* C18 witness: a Close whose first three cleanups all failed has attempted
\* all four.
C18_Witness ==
    /\ vpc = "c_ret"
    /\ CleanupsTried = <<"endpoint", "renderer", "transport", "file">>
    /\ \A j \in 1..3 : ~vl.cleanups[j].ok

\* C19: at most one HTTP listener is ever made and started for the target;
\* there is one as soon as an Update has returned, and an Update that found
\* the target started returns without entering start.
C19_ListenerStartedOnce ==
    /\ listeners <= 1
    /\ started <=> listeners = 1
    /\ webReturned > 0 => listeners = 1
    /\ \A c \in WebCallers : (wpc[c] = "start" \/ wl[c].n = 0) => ~wl[c].wasStarted

\* C19 witness: two Updates both found the target not started and both went
\* through start; one listener was made.
C19_Witness ==
    /\ \A c \in WebCallers : wpc[c] = "ret" /\ ~wl[c].wasStarted
    /\ listeners = 1

\* C20: the document a request gets is the empty document if the handler read
\* t.state before any write, and otherwise the projection of the snapshot of
\* the write it read; that write is no older than the latest write of an
\* Update that had returned when the request arrived.
C20_ResponseIsCurrentProjection ==
    \A r \in Requests :
        rpc[r] = "done" =>
            /\ rl[r].doc = IF rl[r].n = 0 THEN EmptyWorldJSON
                           ELSE ViewStateToJSON(webLog[rl[r].n])
            /\ rl[r].n >= rl[r].floor

\* C20 witness: a request that arrived after an Update returned, and whose
\* handler read after a later write of a different snapshot, has got the
\* projection of the later snapshot.
C20_Witness ==
    \E r \in Requests :
        /\ rpc[r] = "done"
        /\ rl[r].floor > 0
        /\ rl[r].n > rl[r].floor
        /\ webLog[rl[r].n] # webLog[rl[r].floor]
        /\ rl[r].doc = ViewStateToJSON(webLog[rl[r].n])

\* C21: a Close call that has begun eventually returns, whatever requests are
\* in flight.
C21_CloseEventuallyReturns == (cpc = "c_lock") ~> (cpc = "c_ret")

\* C22: in the projection the summary occupancy is 0 when the summary's
\* TotalRAM is 0, whatever AllocatedRAM is, and the quotient
\* AllocatedRAM/TotalRAM otherwise; the land count and the RAM totals are those
\* of the caller's summary.
C22_SummaryOccupancyAndCopies ==
    \A world \in jsWorld :
        LET s == jsState.Summary
            j == world.Summary
        IN  /\ j.Occupancy.den # 0
            /\ s.TotalRAM = 0 => j.Occupancy.num = 0
            /\ s.TotalRAM # 0 => j.Occupancy.num * s.TotalRAM = s.AllocatedRAM * j.Occupancy.den
            /\ j.LandCount = s.TotalLands
            /\ j.TotalRAM = s.TotalRAM
            /\ j.RAMAllocated = s.AllocatedRAM

\* C22 witness: a projected state whose summary has TotalRAM 0 and RAM
\* allocated, and whose TotalLands is not the number of its land records.
C22_Witness ==
    /\ jsState.Summary.TotalRAM = 0
    /\ jsState.Summary.AllocatedRAM > 0
    /\ jsState.Summary.TotalLands # Len(jsState.Lands)
    /\ \E world \in jsWorld : world.Summary.Occupancy = Ratio(0, 1)

\* C23: a Start called while no run goroutine is active calls Update once
\* before it returns, returns that Update's error, and spawns the run
\* goroutine exactly if that Update succeeded.
C23_StartRefreshesOnceThenLoops ==
    \A p \in Callers :
        (op[p] = "Start" /\ pc[p] = "st_ret" /\ u[p].live = {}) =>
            /\ u[p].ctx # 0
            /\ u[p].fetches <= 1
            /\ u[p].spawned <=> u[p].err = NoErr
            /\ u[p].err # Err("viewer already started")

\* A run goroutine's refresh has just returned.
TickRefreshReturns(q) == pc[q] = "u_ret" /\ pc'[q] # "u_ret"

\* run has left its loop: it has returned and its deferred close(v.done) has run.
LoopLeft(k) == pc[LoopThread(k)] = "exited"

\* C24: a run goroutine whose refresh returns, failed or not, is back at its
\* select; it leaves the loop only with its context cancelled; and once its
\* context is cancelled it eventually leaves the loop, unless the process has
\* died of a fault before.
C24_LoopRunsUntilCancelled ==
    /\ [][\A q \in LoopThreads : TickRefreshReturns(q) => pc'[q] = "select"]_vars
    /\ [][\A k \in Ctxs : (~LoopLeft(k) /\ LoopLeft(k)') => ctxDone[k]]_vars
    /\ \A k \in Ctxs : (ctxDone[k] /\ k \in ActiveLoops) ~> (LoopLeft(k) \/ panicked)

\* C24 witness: a run goroutine is back at its select after a refresh whose
\* fetch failed, its context not cancelled.
C24_Witness ==
    \E q \in LoopThreads :
        /\ pc[q] = "u_ret"
        /\ u[q].err # NoErr
        /\ \A k \in Ctxs : q = LoopThread(k) => ~ctxDone[k]

\* The run goroutines that are inside the Update of a tick.
TickRefreshing == {q \in LoopThreads : pc[q] \in {"u_begin", "u_copy", "u_fetch", "u_disp", "u_ret"}}

\* C25: at no time are two tick-driven refreshes of the Viewer in progress.
C25_TickRefreshesNeverOverlap == Cardinality(TickRefreshing) <= 1

\* The calls that have read v.provider for their refresh.
HasReadProvider(p) == pc[p] \in {"u_copy", "u_fetch", "u_disp", "u_ret"}

\* C26: the provider a refresh uses is one that was the Viewer's provider at
\* some time between the refresh's begin and its read of v.provider (so never
\* one replaced before the refresh began), and the snapshot it fetches and
\* dispatches is that provider's.
C26_RefreshUsesCurrentProvider ==
    \A p \in DOMAIN u :
        HasReadProvider(p) =>
            /\ p \in rlocks => u[p].prov \in u[p].since
            /\ u[p].fetches > 0 => u[p].st \in {0, u[p].prov}
            /\ \A j \in 1..Len(u[p].disp) : u[p].disp[j].st = u[p].prov

\* C26 witness: a tick's refresh that began under provider 1 has read
\* provider 2, set before the refresh read v.provider.
C26_Witness ==
    \E p \in DOMAIN u \cap LoopThreads :
        /\ HasReadProvider(p)
        /\ u[p].since = {1, 2}
        /\ u[p].prov = 2

\* C27: an Update whose fetch succeeded has called the provider once and has
\* called update once on every entry of its copied list, in the list's order,
\* each time with the snapshot fetched, however many entries failed and
\* wherever they are.
C27_FanOutCompleteInOrder ==
    \A p \in Threads :
        FannedOut(p) =>
            /\ u[p].fetches = 1
            /\ Called(u[p].disp) = u[p].snap
            /\ \A j \in 1..Len(u[p].disp) : u[p].disp[j].st = u[p].st

\* C27 witness: an Update of a full list on which every target failed has
\* called them all, in the order of the list, with one snapshot.
C27_Witness ==
    \E p \in Threads :
        /\ FannedOut(p)
        /\ Len(u[p].snap) = MaxTargets
        /\ Failed(u[p].disp) = 1..MaxTargets
        /\ Called(u[p].disp) = u[p].snap
        /\ u[p].fetches = 1

\* C28: during generation a frame that was rendered is written to the
\* encoder's input before anything else is done, so the rendering of a frame
\* follows the launch, the write of the frame before it, or a rendering that
\* gave no frame; and the encoder's exit is awaited only with its input
\* closed, straight after the close.
C28_WriteBeforeNextRender ==
    /\ \A j \in VideoOps("render") :
          /\ j > 1
          /\ \/ vl.ops[j - 1].op = "launch"
             \/ vl.ops[j - 1] = [op |-> "write", i |-> vl.ops[j].i - 1]
             \/ vl.ops[j - 1] = [op |-> "render", i |-> vl.ops[j].i - 1, frame |-> FALSE]
          /\ vl.ops[j].frame =>
                IF j = Len(vl.ops) THEN vpc = "g_write"
                ELSE vl.ops[j + 1] = [op |-> "write", i |-> vl.ops[j].i]
    /\ \A j \in VideoOps("wait") : j > 1 /\ vl.ops[j - 1].op = "closeIn"
    /\ vpc \in {"g_wait", "g_cwait"} => ffmpeg.stdin = "closed"

\* C28 witness: two frames were rendered and written in turn, the input was
\* closed and the encoder's exit awaited.
C28_Witness ==
    /\ Cardinality(VideoOps("write")) = 2
    /\ Cardinality(VideoOps("render")) = 2
    /\ VideoOps("wait") # {}
    /\ ~vl.wfail

\* C29: in a Start call the endpoint is started only after the encoder's exit
\* was awaited and was a success; the display is told to play only after that,
\* with this call's endpoint serving; and a call that has failed has entered
\* no stage after the one that failed.
C29_StagesInOrder ==
    /\ \A j \in VideoOps("serve") :
          /\ j > 1 /\ vl.ops[j - 1].op = "wait"
          /\ ffmpeg.st = "exited" /\ ffmpeg.code = 0
    /\ \A j \in VideoOps("cast") :
          /\ j > 1 /\ vl.ops[j - 1].op = "serve"
          /\ vl.id \in listening
    /\ vl.err.stage = "no state set - call Update first" => vl.ops = <<>>
    /\ vl.err.stage = "generate video" => NotServedNorCast
    /\ vl.err.stage = "stream to TV" => vl.ops[Len(vl.ops)].op = "cast"

\* C30: a generation that ran through its loop, neither cancelled nor cut
\* short by a failed write, has iterated over duration x frame rate frame
\* indices (the duration is in half seconds; a fraction of a frame does not
\* count).
C30_FrameCountIsDurationTimesRate ==
    (vpc = "g_close" /\ ~vl.wfail) => vl.i = (duration * fps) \div 2

\* C31: Update calls on one SmartTVTarget that all encoded to the same bytes
\* have made at most one push to the display, also when they ran concurrently.
C31_ConcurrentIdenticalPushedOnce == Cardinality(tvSeen) <= 1 => tvPushes <= 1

\* C32: a Stop called on a Viewer on which Start was never called returns.
C32_StopWithoutStartReturns ==
    \A p \in Callers :
        (op[p] = "Stop" /\ pc[p] = "sp_wait" /\ nctx = 0) ~> (pc[p] = "sp_ret")

\* C33: a Start that returns the error of its failed initial refresh leaves
\* the Viewer not started: no run goroutine was spawned and v.cancel is nil,
\* so that a later Start passes the already-started guard.
C33_FailedStartLeavesNotStarted ==
    \A p \in Callers :
        (op[p] = "Start" /\ pc[p] = "st_ret" /\ u[p].ctx # 0 /\ u[p].err # NoErr) =>
            /\ ~u[p].spawned
            /\ ~AlreadyStarted

\* C34: the exit of a run goroutine never faults: when its deferred
\* close(v.done) runs, v.done has not been closed before, also for the loop of
\* a Start that followed an earlier Start and Stop.
C34_RestartedLoopExitDoesNotFault == ~panicked

\* C35: when Close has removed t.videoFile without error, none of the output
\* files of the Start calls that returned nil is left on disk.  With a TV on
\* which StreamVideo succeeds these are the files of the Starts that reached
\* startHTTPServer, whose ids are in servers.
C35_CloseRemovesEveryEncodedFile ==
    (/\ vpc = "c_ret"
     /\ \A j \in 1..Len(vl.cleanups) : vl.cleanups[j].what = "file" => vl.cleanups[j].ok)
        => servers \cap files = {}

====
